---- MODULE Spec2Model ----
(***************************************************************************)
(* VoidKernel (backend/app/core/voidkernel.py): a priority queue of tasks, *)
(* a pool of worker coroutines that gate each task on its dependencies,    *)
(* invoke a module operation and record the outcome, a memory vault, a     *)
(* broadcast channel and per-module performance counters.                  *)
(*                                                                         *)
(* The kernel runs on one asyncio event loop: code between two awaits that *)
(* really suspend is one atomic step.  The suspension points of a worker   *)
(* are the queue get (wait_for), the module call and the two sleeps.       *)
(***************************************************************************)
EXTENDS Integers, Sequences, FiniteSets, TLC

(***************************************************************************)
(* Bounds of the model.                                                    *)
(***************************************************************************)
MaxTasks == 3
MaxTasksOutcome == 2
MaxWorkers == 2
MaxStarts == 1
\* capacity of completed_tasks (1000 in the code, scaled down); the number
\* of entries evicted is half of it (500 in the code)
CompletedCapacity == 2
\* length of a vault's recent_tasks list (50 in the code, scaled down)
VaultCapacity == 2
\* tasks submitted where the completed set overflows with a task still waiting
MaxTasksEvict == 4

(***************************************************************************)
(* Priority (enum values) and TaskStatus.                                  *)
(***************************************************************************)
LOW == 1
NORMAL == 2
HIGH == 3
CRITICAL == 4
Priority == {LOW, NORMAL, HIGH, CRITICAL}

PENDING == "pending"
RUNNING == "running"
COMPLETED == "completed"
FAILED == "failed"
CANCELLED == "cancelled"
TaskStatus == {PENDING, RUNNING, COMPLETED, FAILED, CANCELLED}
Terminal == {COMPLETED, FAILED, CANCELLED}

None == "None"

\* the module names used by submitters; only Registrable ones are ever
\* handed to register_ai_module
KnownModule == "nebulavoid"
GhostModule == "ghost"
ModuleNames == {KnownModule, GhostModule}
Registrable == {KnownModule}

\* what a module operation can do when awaited: return a mapping, return a
\* value that is no mapping (a list, a string), or raise
RetMapping == "mapping"
RetList == "list"
Raises == "raise"
Outcomes == {RetMapping, RetList, Raises}

VARIABLES
    is_running,          \* self.is_running
    max_workers,         \* self.max_workers
    worker_tasks,        \* self.worker_tasks: per worker its position in _worker
    held,                \* per worker the queue item it has popped
    tasks,               \* every AITask created, indexed by id (submission order)
    task_queue,          \* self.task_queue: the heap list of (priority, timestamp, id)
    active_tasks,        \* self.active_tasks (its keys)
    completed_tasks,     \* self.completed_tasks (its keys, in insertion order)
    ai_modules,          \* self.ai_modules (its keys)
    memory_vault,        \* self.memory_vault: key -> recent_tasks list
    broadcast_channel,   \* self.broadcast_channel
    performance_metrics, \* self.performance_metrics
    clock,               \* the wall clock read by utcnow() and time.time()
    starts,              \* number of start_monitoring calls so far
    run_log,             \* history: ids in the order they entered RUNNING
    first_pop,           \* history: number of tasks submitted when the first get returned (-1: none yet)
    last_command,        \* history: the last execute_command call and what it answered
    event_handlers,      \* self.event_handlers: event type -> list of handlers
    brokers,             \* the _message_broker coroutines: per broker its position
    consumed,            \* number of messages taken out of broadcast_channel so far
    delivery_log,        \* history: handler invocations and handler errors, in order
    monitors,            \* the _performance_monitor coroutines: per monitor its position
    shutdowns            \* history: number of shutdown() calls counted so far

vars == <<is_running, max_workers, worker_tasks, held, tasks, task_queue,
          active_tasks, completed_tasks, ai_modules, memory_vault,
          broadcast_channel, performance_metrics, clock, starts, run_log,
          first_pop, last_command, event_handlers, brokers, consumed,
          delivery_log, monitors, shutdowns>>

\* the event bus
bus == <<event_handlers, brokers, consumed, delivery_log>>

TaskIds == 1..Len(tasks)
Workers == 1..Len(worker_tasks)

(***************************************************************************)
(* The heap under asyncio.PriorityQueue (heapq on a list of tuples).       *)
(* Tuples compare field by field; two items with equal priority and equal  *)
(* timestamp fall through to comparing the AITask objects, which define no *)
(* ordering: the comparison raises TypeError.                              *)
(***************************************************************************)
ItemLt(a, b) ==
    IF a[1] # b[1] THEN (IF a[1] < b[1] THEN "lt" ELSE "ge")
    ELSE IF a[2] # b[2] THEN (IF a[2] < b[2] THEN "lt" ELSE "ge")
    ELSE IF a[3] = b[3] THEN "ge"
    ELSE "err"

Swap(h, i, j) == [h EXCEPT ![i] = h[j], ![j] = h[i]]

RECURSIVE SiftDown(_, _, _)
SiftDown(h, startpos, pos) ==
    IF pos <= startpos THEN [heap |-> h, err |-> FALSE]
    ELSE LET parentpos == pos \div 2
             c == ItemLt(h[pos], h[parentpos])
         IN  IF c = "err" THEN [heap |-> h, err |-> TRUE]
             ELSE IF c = "ge" THEN [heap |-> h, err |-> FALSE]
             ELSE SiftDown(Swap(h, pos, parentpos), startpos, parentpos)

RECURSIVE SiftUpFrom(_, _, _)
SiftUpFrom(h, startpos, pos) ==
    IF pos > Len(h) \div 2 THEN SiftDown(h, startpos, pos)
    ELSE LET left == 2 * pos
             c == IF left + 1 <= Len(h) THEN ItemLt(h[left], h[left + 1]) ELSE "lt"
         IN  IF c = "err" THEN [heap |-> h, err |-> TRUE]
             ELSE LET childpos == IF c = "lt" THEN left ELSE left + 1
                  IN  SiftUpFrom(Swap(h, pos, childpos), startpos, childpos)

HeapPush(h, item) == SiftDown(Append(h, item), 1, Len(h) + 1)

\* a get that returns the smallest item and leaves it in the list
HeapPeek(h) == [heap |-> h, err |-> FALSE, item |-> h[1]]

\* heappop: on a comparison error the popped item is dropped with the
\* exception and the last item already sits at the root
HeapPop(h) ==
    LET n == Len(h)
        lastelt == h[n]
        rest == SubSeq(h, 1, n - 1)
    IN  IF n = 1 THEN [heap |-> rest, err |-> FALSE, item |-> lastelt]
        ELSE LET r == SiftUpFrom([rest EXCEPT ![1] = lastelt], 1, 1)
             IN  [heap |-> r.heap, err |-> r.err, item |-> h[1]]

(***************************************************************************)
(* __init__                                                                *)
(***************************************************************************)
\* no execute_command call yet
NoCommand == [type |-> None, task_id |-> 0, answer |-> None, task |-> <<>>]

NoMetrics == [initialized |-> FALSE, tasks_processed |-> 0,
              module_performance |-> <<>>]

InitKernel ==
    /\ is_running = FALSE
    /\ worker_tasks = <<>>
    /\ held = <<>>
    /\ tasks = <<>>
    /\ task_queue = <<>>
    /\ active_tasks = {}
    /\ completed_tasks = <<>>
    /\ ai_modules = {}
    /\ memory_vault = <<>>
    /\ broadcast_channel = <<>>
    /\ performance_metrics = NoMetrics
    /\ clock = 0
    /\ starts = 0
    /\ run_log = <<>>
    /\ first_pop = -1
    /\ last_command = NoCommand
    /\ event_handlers = <<>>
    /\ brokers = <<>>
    /\ consumed = 0
    /\ delivery_log = <<>>
    /\ monitors = <<>>
    /\ shutdowns = 0

Init ==
    /\ InitKernel
    /\ max_workers \in 1..MaxWorkers

(***************************************************************************)
(* Helpers on tasks and collections.                                       *)
(***************************************************************************)
InSeq(x, s) == \E i \in 1..Len(s) : s[i] = x

RECURSIVE RemoveAll(_, _)
RemoveAll(s, gone) ==
    IF s = <<>> THEN <<>>
    ELSE IF Head(s) \in gone THEN RemoveAll(Tail(s), gone)
    ELSE <<Head(s)>> \o RemoveAll(Tail(s), gone)

\* no sort: the entries in insertion order
SortedByInsertion(ts, s) == s

\* no cleanup at all
CleanupNever(ts, done) == done

\* sorted(..., key=created_at): a stable sort, ties keep insertion order
RECURSIVE InsertByCreatedAt(_, _, _)
InsertByCreatedAt(ts, s, x) ==
    IF s = <<>> THEN <<x>>
    ELSE IF ts[x].created_at < ts[Head(s)].created_at THEN <<x>> \o s
    ELSE <<Head(s)>> \o InsertByCreatedAt(ts, Tail(s), x)

RECURSIVE SortedByCreatedAt(_, _)
SortedByCreatedAt(ts, s) ==
    IF s = <<>> THEN <<>>
    ELSE InsertByCreatedAt(ts, SortedByCreatedAt(ts, SubSeq(s, 1, Len(s) - 1)), s[Len(s)])

\* the cleanup at the end of _process_task: over capacity, drop the oldest half
EvictCount == CompletedCapacity \div 2

Cleanup(ts, done) ==
    IF Len(done) > CompletedCapacity
    THEN LET oldest_tasks == SubSeq(SortedByCreatedAt(ts, done), 1, EvictCount)
         IN  RemoveAll(done, {oldest_tasks[i] : i \in 1..Len(oldest_tasks)})
    ELSE done

\* no gate at all
check_dependencies_skipped(t) == TRUE

\* a dependency counts once it has finished, whatever its status
check_dependencies_finished(t) ==
    \A dep_id \in tasks[t].dependencies : InSeq(dep_id, completed_tasks)

\* a dependency counts by its status alone, kept in completed_tasks or not
check_dependencies_by_status(t) ==
    \A dep_id \in tasks[t].dependencies : tasks[dep_id].status = COMPLETED

\* _check_dependencies
check_dependencies(t) ==
    \A dep_id \in tasks[t].dependencies :
        /\ InSeq(dep_id, completed_tasks)
        /\ tasks[dep_id].status = COMPLETED

\* metrics that count a failure as processed but not as an error
update_performance_metrics_no_error(pm, module, success) ==
    LET mp == pm.module_performance
        old == IF module \in DOMAIN mp THEN mp[module]
               ELSE [total_tasks |-> 0, success_count |-> 0, error_count |-> 0]
        new == [total_tasks |-> old.total_tasks + 1,
                success_count |-> old.success_count + (IF success THEN 1 ELSE 0),
                error_count |-> old.error_count]
    IN  [pm EXCEPT !.tasks_processed = @ + 1,
                   !.module_performance =
                       [m \in (DOMAIN mp) \cup {module} |-> IF m = module THEN new ELSE mp[m]]]

\* _update_performance_metrics
update_performance_metrics(pm, module, success) ==
    LET mp == pm.module_performance
        old == IF module \in DOMAIN mp THEN mp[module]
               ELSE [total_tasks |-> 0, success_count |-> 0, error_count |-> 0]
        new == [total_tasks |-> old.total_tasks + 1,
                success_count |-> old.success_count + (IF success THEN 1 ELSE 0),
                error_count |-> old.error_count + (IF success THEN 0 ELSE 1)]
    IN  [pm EXCEPT !.tasks_processed = @ + 1,
                   !.module_performance =
                       [m \in (DOMAIN mp) \cup {module} |-> IF m = module THEN new ELSE mp[m]]]

\* _update_memory_vault up to the point where the summary is built: the
\* entry and its recent_tasks list exist from here on
vault_entry(mv, key) ==
    [k \in (DOMAIN mv) \cup {key} |-> IF k \in DOMAIN mv THEN mv[k] ELSE <<>>]

\* _update_memory_vault with a result that can be summarised
LastN(s, n) == IF Len(s) > n THEN SubSeq(s, Len(s) - n + 1, Len(s)) ELSE s

update_memory_vault(mv, t, user_id) ==
    IF user_id = None THEN mv
    ELSE [vault_entry(mv, user_id) EXCEPT
              ![user_id] = LastN(Append(@, t), VaultCapacity)]

\* _broadcast_event
broadcast_event(ch, event_type, t) == Append(ch, [type |-> event_type, task_id |-> t])

\* the finally block of _process_task
move_to_completed(done, t) == IF InSeq(t, done) THEN done ELSE Append(done, t)

Finish(ts, t) ==
    /\ active_tasks' = active_tasks \ {t}
    /\ completed_tasks' = Cleanup(ts, move_to_completed(completed_tasks, t))

\* an except branch that records the error and forgets the status
FailTaskKeepsStatus(t, message) ==
    /\ tasks' = [tasks EXCEPT ![t].status = RUNNING, ![t].error = message]
    /\ performance_metrics' =
           update_performance_metrics(performance_metrics, tasks[t].module, FALSE)
    /\ broadcast_channel' = broadcast_event(broadcast_channel, "task_failed", t)
    /\ Finish(tasks', t)

\* the except branch of _process_task
FailTask(t, message) ==
    /\ tasks' = [tasks EXCEPT ![t].status = FAILED, ![t].error = message]
    /\ performance_metrics' =
           update_performance_metrics(performance_metrics, tasks[t].module, FALSE)
    /\ broadcast_channel' = broadcast_event(broadcast_channel, "task_failed", t)
    /\ Finish(tasks', t)

(***************************************************************************)
(* The facade: initialize, register_ai_module, submit_task,                *)
(* start_monitoring, execute_command(cancel_task), shutdown.               *)
(***************************************************************************)
\* initialize(): called once, at application startup
initialize ==
    /\ ~performance_metrics.initialized
    /\ performance_metrics' = [initialized |-> TRUE, tasks_processed |-> 0,
                               module_performance |-> <<>>]
    /\ is_running' = TRUE
    /\ UNCHANGED <<max_workers, worker_tasks, held, tasks, task_queue, active_tasks,
                   completed_tasks, ai_modules, memory_vault, broadcast_channel,
                   clock, starts, run_log, first_pop,
                   last_command, bus, monitors, shutdowns>>

register_ai_module(name) ==
    /\ name \notin ai_modules
    /\ ai_modules' = ai_modules \cup {name}
    /\ UNCHANGED <<is_running, max_workers, worker_tasks, held, tasks, task_queue,
                   active_tasks, completed_tasks, memory_vault, broadcast_channel,
                   performance_metrics, clock, starts, run_log, first_pop,
                   last_command, bus, monitors, shutdowns>>

\* submit_task: d1 and d2 say whether the clock has advanced before the
\* utcnow() that sets created_at and before the time.time() that keys the
\* queue item.  The item is appended to the heap list before it is sifted,
\* so it is in the list also when the sift raises TypeError.
submit_task(module, priority, user_id, project_id, dependencies, d1, d2) ==
    /\ LET task_id == Len(tasks) + 1
           created == clock + d1
           timestamp == created + d2
           task == [module |-> module, priority |-> priority, created_at |-> created,
                    user_id |-> user_id, project_id |-> project_id, status |-> PENDING,
                    result |-> None, error |-> None, dependencies |-> dependencies]
       IN  /\ tasks' = Append(tasks, task)
           /\ task_queue' = HeapPush(task_queue, <<priority, timestamp, task_id>>).heap
           /\ clock' = timestamp
    /\ UNCHANGED <<is_running, max_workers, worker_tasks, held, active_tasks,
                   completed_tasks, ai_modules, memory_vault, broadcast_channel,
                   performance_metrics, starts, run_log, first_pop,
                   last_command, bus, monitors, shutdowns>>

\* a broker or a monitor at the top of its loop or in its sleep
Idle == [pc |-> "idle", msg |-> 0, h |-> 0]

\* start_monitoring: max_workers new worker coroutines, one more message
\* broker and one more performance monitor, each at the top of its loop;
\* `limit` bounds the number of calls
StartMonitoring(limit) ==
    /\ starts < limit
    /\ starts' = starts + 1
    /\ worker_tasks' = worker_tasks \o [i \in 1..max_workers |-> "loop"]
    /\ held' = held \o [i \in 1..max_workers |-> <<>>]
    /\ brokers' = Append(brokers, Idle)
    /\ monitors' = Append(monitors, "loop")
    /\ UNCHANGED <<is_running, max_workers, tasks, task_queue, active_tasks,
                   completed_tasks, ai_modules, memory_vault, broadcast_channel,
                   performance_metrics, clock, run_log, first_pop,
                   last_command, event_handlers, consumed, delivery_log, shutdowns>>

start_monitoring == StartMonitoring(MaxStarts)

\* the answers of execute_command
Cancelled == "cancelled"
NotActive == "Task not found or not active"
NotFound == "Task not found"
Found == "task"

Answer(type, task_id, answer, task) ==
    [type |-> type, task_id |-> task_id, answer |-> answer, task |-> task]

\* a cancel that marks every task it knows, active or not
cancel_task_any(t) ==
    /\ IF t \in TaskIds
       THEN /\ tasks' = [tasks EXCEPT ![t].status = CANCELLED]
            /\ last_command' = Answer("cancel_task", t, Cancelled, <<>>)
       ELSE /\ last_command' = Answer("cancel_task", t, NotActive, <<>>)
            /\ UNCHANGED tasks
    /\ UNCHANGED <<is_running, max_workers, worker_tasks, held, task_queue,
                   active_tasks, completed_tasks, ai_modules, memory_vault,
                   broadcast_channel, performance_metrics, clock, starts, run_log, first_pop, bus, monitors, shutdowns>>

\* execute_command({"type": "cancel_task", "task_id": t})
cancel_task(t) ==
    /\ IF t \in active_tasks
       THEN /\ tasks' = [tasks EXCEPT ![t].status = CANCELLED]
            /\ last_command' = Answer("cancel_task", t, Cancelled, <<>>)
       ELSE /\ last_command' = Answer("cancel_task", t, NotActive, <<>>)
            /\ UNCHANGED tasks
    /\ UNCHANGED <<is_running, max_workers, worker_tasks, held, task_queue,
                   active_tasks, completed_tasks, ai_modules, memory_vault,
                   broadcast_channel, performance_metrics, clock, starts, run_log, first_pop, bus, monitors, shutdowns>>

\* execute_command({"type": "get_task_status", "task_id": t}): asdict() of
\* the record found in active_tasks or in completed_tasks
get_task_status(t) ==
    /\ last_command' =
           IF t \in active_tasks \/ InSeq(t, completed_tasks)
           THEN Answer("get_task_status", t, Found, <<tasks[t]>>)
           ELSE Answer("get_task_status", t, NotFound, <<>>)
    /\ UNCHANGED <<is_running, max_workers, worker_tasks, held, tasks, task_queue,
                   active_tasks, completed_tasks, ai_modules, memory_vault,
                   broadcast_channel, performance_metrics, clock, starts, run_log, first_pop, bus, monitors, shutdowns>>

(***************************************************************************)
(* _worker and _process_task.                                              *)
(*   "loop"  at `while self.is_running`, in the queue get or in a sleep    *)
(*   "got"   the get has returned an item, the worker has not resumed yet  *)
(*   "call"  inside the awaited module operation                           *)
(*   "done"  the coroutine has ended                                       *)
(***************************************************************************)
worker_exit(w) ==
    /\ worker_tasks[w] = "loop"
    /\ ~is_running
    /\ worker_tasks' = [worker_tasks EXCEPT ![w] = "done"]
    /\ UNCHANGED <<is_running, max_workers, held, tasks, task_queue, active_tasks,
                   completed_tasks, ai_modules, memory_vault, broadcast_channel,
                   performance_metrics, clock, starts, run_log, first_pop,
                   last_command, bus, monitors, shutdowns>>

\* a get that does not look at is_running
worker_get_always(w) ==
    /\ worker_tasks[w] = "loop"
    /\ task_queue # <<>>
    /\ LET r == HeapPop(task_queue)
       IN  /\ task_queue' = r.heap
           /\ IF r.err
              THEN UNCHANGED <<worker_tasks, held>>
              ELSE /\ worker_tasks' = [worker_tasks EXCEPT ![w] = "got"]
                   /\ held' = [held EXCEPT ![w] = r.item]
           /\ first_pop' = IF first_pop = -1 /\ ~r.err THEN Len(tasks) ELSE first_pop
    /\ UNCHANGED <<is_running, max_workers, tasks, active_tasks, completed_tasks,
                   ai_modules, memory_vault, broadcast_channel, performance_metrics,
                   clock, starts, run_log,
                   last_command, bus, monitors, shutdowns>>

\* a get that hands out the first item and leaves it in the queue
worker_get_keeps(w) ==
    /\ worker_tasks[w] = "loop"
    /\ is_running
    /\ task_queue # <<>>
    /\ LET r == HeapPop(task_queue)
       IN  /\ task_queue' = task_queue
           /\ IF r.err
              THEN UNCHANGED <<worker_tasks, held>>
              ELSE /\ worker_tasks' = [worker_tasks EXCEPT ![w] = "got"]
                   /\ held' = [held EXCEPT ![w] = r.item]
           /\ first_pop' = IF first_pop = -1 /\ ~r.err THEN Len(tasks) ELSE first_pop
    /\ UNCHANGED <<is_running, max_workers, tasks, active_tasks, completed_tasks,
                   ai_modules, memory_vault, broadcast_channel, performance_metrics,
                   clock, starts, run_log,
                   last_command, bus, monitors, shutdowns>>

\* task_queue.get(): a TypeError from the heap's sift drops the popped item
\* and lands in the worker's `except Exception` (sleep, next iteration)
worker_get(w) ==
    /\ worker_tasks[w] = "loop"
    /\ is_running
    /\ task_queue # <<>>
    /\ LET r == HeapPop(task_queue)
       IN  /\ task_queue' = r.heap
           /\ IF r.err
              THEN UNCHANGED <<worker_tasks, held>>
              ELSE /\ worker_tasks' = [worker_tasks EXCEPT ![w] = "got"]
                   /\ held' = [held EXCEPT ![w] = r.item]
           /\ first_pop' = IF first_pop = -1 /\ ~r.err THEN Len(tasks) ELSE first_pop
    /\ UNCHANGED <<is_running, max_workers, tasks, active_tasks, completed_tasks,
                   ai_modules, memory_vault, broadcast_channel, performance_metrics,
                   clock, starts, run_log,
                   last_command, bus, monitors, shutdowns>>

\* a re-queue that stamps the item with a new time
worker_requeue_restamps(w) ==
    /\ worker_tasks[w] = "got"
    /\ ~check_dependencies(held[w][3])
    /\ task_queue' = HeapPush(task_queue, <<held[w][1], clock + 1, held[w][3]>>).heap
    /\ worker_tasks' = [worker_tasks EXCEPT ![w] = "loop"]
    /\ held' = [held EXCEPT ![w] = <<>>]
    /\ UNCHANGED <<is_running, max_workers, tasks, active_tasks, completed_tasks,
                   ai_modules, memory_vault, broadcast_channel, performance_metrics,
                   clock, starts, run_log, first_pop,
                   last_command, bus, monitors, shutdowns>>

\* dependencies not met: put the item back as popped, sleep, next iteration
worker_requeue(w) ==
    /\ worker_tasks[w] = "got"
    /\ ~check_dependencies(held[w][3])
    /\ task_queue' = HeapPush(task_queue, held[w]).heap
    /\ worker_tasks' = [worker_tasks EXCEPT ![w] = "loop"]
    /\ held' = [held EXCEPT ![w] = <<>>]
    /\ UNCHANGED <<is_running, max_workers, tasks, active_tasks, completed_tasks,
                   ai_modules, memory_vault, broadcast_channel, performance_metrics,
                   clock, starts, run_log, first_pop,
                   last_command, bus, monitors, shutdowns>>

\* a dispatch that treats every module as unknown
process_task_rejects(w) ==
    /\ worker_tasks[w] = "got"
    /\ check_dependencies(held[w][3])
    /\ LET t == held[w][3]
       IN  /\ run_log' = Append(run_log, t)
           /\ IF TRUE
              THEN /\ FailTask(t, "Unknown AI module")
                   /\ worker_tasks' = [worker_tasks EXCEPT ![w] = "loop"]
                   /\ held' = [held EXCEPT ![w] = <<>>]
                   /\ UNCHANGED memory_vault
              ELSE /\ tasks' = [tasks EXCEPT ![t].status = RUNNING]
                   /\ active_tasks' = active_tasks \cup {t}
                   /\ worker_tasks' = [worker_tasks EXCEPT ![w] = "call"]
                   /\ UNCHANGED <<held, completed_tasks, memory_vault,
                                  broadcast_channel, performance_metrics>>
    /\ UNCHANGED <<is_running, max_workers, task_queue, ai_modules, clock, starts, first_pop,
                   last_command, bus, monitors, shutdowns>>

\* dependencies met: _process_task up to the module call; an unknown module
\* raises ValueError at once and the task fails in the same step
process_task(w) ==
    /\ worker_tasks[w] = "got"
    /\ check_dependencies(held[w][3])
    /\ LET t == held[w][3]
       IN  /\ run_log' = Append(run_log, t)
           /\ IF tasks[t].module \notin ai_modules
              THEN /\ FailTask(t, "Unknown AI module")
                   /\ worker_tasks' = [worker_tasks EXCEPT ![w] = "loop"]
                   /\ held' = [held EXCEPT ![w] = <<>>]
                   /\ UNCHANGED memory_vault
              ELSE /\ tasks' = [tasks EXCEPT ![t].status = RUNNING]
                   /\ active_tasks' = active_tasks \cup {t}
                   /\ worker_tasks' = [worker_tasks EXCEPT ![w] = "call"]
                   /\ UNCHANGED <<held, completed_tasks, memory_vault,
                                  broadcast_channel, performance_metrics>>
    /\ UNCHANGED <<is_running, max_workers, task_queue, ai_modules, clock, starts, first_pop,
                   last_command, bus, monitors, shutdowns>>

\* the module operation returns `outcome`: the rest of _process_task
module_returns(w, outcome) ==
    /\ worker_tasks[w] = "call"
    /\ LET t == held[w][3]
           user_id == tasks[t].user_id
       IN  CASE outcome = Raises ->
                  /\ FailTask(t, "module error")
                  /\ UNCHANGED memory_vault
             [] outcome = RetList /\ user_id # None ->
                  \* _summarize_result: 'list' object has no attribute 'get'
                  /\ memory_vault' = vault_entry(memory_vault, user_id)
                  /\ tasks' = [tasks EXCEPT ![t].result = outcome, ![t].status = FAILED,
                                            ![t].error = "AttributeError"]
                  /\ performance_metrics' =
                         update_performance_metrics(performance_metrics, tasks[t].module, FALSE)
                  /\ broadcast_channel' = broadcast_event(broadcast_channel, "task_failed", t)
                  /\ Finish(tasks', t)
             [] OTHER ->
                  /\ tasks' = [tasks EXCEPT ![t].result = outcome, ![t].status = COMPLETED]
                  /\ memory_vault' = update_memory_vault(memory_vault, t, user_id)
                  /\ broadcast_channel' = broadcast_event(broadcast_channel, "task_completed", t)
                  /\ performance_metrics' =
                         update_performance_metrics(performance_metrics, tasks[t].module, TRUE)
                  /\ Finish(tasks', t)
    /\ worker_tasks' = [worker_tasks EXCEPT ![w] = "loop"]
    /\ held' = [held EXCEPT ![w] = <<>>]
    /\ UNCHANGED <<is_running, max_workers, task_queue, ai_modules, clock, starts, run_log, first_pop,
                   last_command, bus, monitors, shutdowns>>

\* shutdown(): is_running = False, cancel() on every worker, gather; the
\* count of calls is kept by the next-state relation that uses it.  A
\* worker waiting in the get or in a sleep ends; a worker inside a module
\* call gets CancelledError there, which no `except Exception` catches, so
\* only the finally block runs; a worker whose get has already returned
\* keeps the item (wait_for returns the result of a finished get) and goes on.
\* a cancel that wakes a worker that had ended
CancelledWorkerRevives(w) ==
    IF worker_tasks[w] = "done" THEN "loop" ELSE "done"

CancelledWorker(w) ==
    IF worker_tasks[w] \in {"loop", "call"} THEN "done" ELSE worker_tasks[w]

RECURSIVE FinishAll(_, _)
FinishAll(done, w) ==
    IF w > Len(worker_tasks) THEN done
    ELSE IF worker_tasks[w] = "call"
    THEN FinishAll(Cleanup(tasks, move_to_completed(done, held[w][3])), w + 1)
    ELSE FinishAll(done, w + 1)

RunningWorkers == {w \in Workers : worker_tasks[w] = "call"}

shutdown ==
    /\ is_running' = FALSE
    /\ worker_tasks' = [w \in Workers |-> CancelledWorker(w)]
    /\ held' = [w \in Workers |-> IF worker_tasks[w] = "call" THEN <<>> ELSE held[w]]
    /\ active_tasks' = active_tasks \ {held[w][3] : w \in RunningWorkers}
    /\ completed_tasks' = FinishAll(completed_tasks, 1)
    /\ UNCHANGED <<max_workers, tasks, task_queue, ai_modules, memory_vault,
                   broadcast_channel, performance_metrics, clock, starts, run_log, first_pop,
                   last_command, bus, monitors>>

(***************************************************************************)
(* The event bus: handlers in event_handlers, _message_broker,             *)
(* _handle_broadcast_message; and _performance_monitor.                    *)
(*   broker "idle"     at `while self.is_running` or in a sleep            *)
(*   broker "handler"  awaiting handler number h for message number msg    *)
(*   broker "done"     the coroutine has ended                             *)
(* broadcast_channel keeps every message ever put; the queue the broker    *)
(* reads is what lies behind the first `consumed` messages.                *)
(***************************************************************************)
EventTypes == {"task_completed", "task_failed"}
Handlers == {"h1", "h2"}
Returns == "returns"
HandlerOutcomes == {Returns, Raises}

handlers_for(type) == IF type \in DOMAIN event_handlers THEN event_handlers[type] ELSE <<>>

\* the caller appends a handler to event_handlers[type] (each handler at
\* most once per type)
add_event_handler(type, handler) ==
    /\ ~InSeq(handler, handlers_for(type))
    /\ event_handlers' =
           [k \in (DOMAIN event_handlers) \cup {type} |->
               IF k = type THEN Append(handlers_for(type), handler) ELSE event_handlers[k]]
    /\ UNCHANGED <<is_running, max_workers, worker_tasks, held, tasks, task_queue,
                   active_tasks, completed_tasks, ai_modules, memory_vault,
                   broadcast_channel, performance_metrics, clock, starts, run_log,
                   first_pop, last_command, brokers, consumed, delivery_log, monitors,
                   shutdowns>>

Invocation(handler, msg) == [kind |-> "call", handler |-> handler, msg |-> msg]
HandlerError(handler, msg) == [kind |-> "error", handler |-> handler, msg |-> msg]

\* the broker invokes handler number h of message number msg if the list
\* has one, else it is through with the message
Invoke(b, log, msg, h) ==
    LET list == handlers_for(broadcast_channel[msg].type)
    IN  IF h <= Len(list)
        THEN /\ brokers' = [brokers EXCEPT ![b] = [pc |-> "handler", msg |-> msg, h |-> h]]
             /\ delivery_log' = Append(log, Invocation(list[h], msg))
        ELSE /\ brokers' = [brokers EXCEPT ![b] = Idle]
             /\ delivery_log' = log

\* a failing handler ends the handling of the message
InvokeNextUnlessRaised(b, outcome, log, msg, h) ==
    IF outcome = Raises
    THEN brokers' = [brokers EXCEPT ![b] = Idle] /\ delivery_log' = log
    ELSE Invoke(b, log, msg, h)

\* after handler h - 1 has returned or raised: the next handler, whatever
\* the outcome was
InvokeNext(b, outcome, log, msg, h) == Invoke(b, log, msg, h)

\* a broker that takes a message off the channel and calls no handler
broker_get_drops(b) ==
    /\ brokers[b].pc = "idle"
    /\ is_running
    /\ consumed < Len(broadcast_channel)
    /\ consumed' = consumed + 1
    /\ UNCHANGED <<is_running, max_workers, worker_tasks, held, tasks, task_queue,
                   active_tasks, completed_tasks, ai_modules, memory_vault,
                   broadcast_channel, performance_metrics, clock, starts, run_log,
                   first_pop, last_command, event_handlers, monitors, shutdowns,
                   brokers, delivery_log>>

\* _message_broker: a message is waiting; get it and call its first handler
broker_get(b) ==
    /\ brokers[b].pc = "idle"
    /\ is_running
    /\ consumed < Len(broadcast_channel)
    /\ consumed' = consumed + 1
    /\ Invoke(b, delivery_log, consumed + 1, 1)
    /\ UNCHANGED <<is_running, max_workers, worker_tasks, held, tasks, task_queue,
                   active_tasks, completed_tasks, ai_modules, memory_vault,
                   broadcast_channel, performance_metrics, clock, starts, run_log,
                   first_pop, last_command, event_handlers, monitors, shutdowns>>

\* _handle_broadcast_message: the awaited handler returns or raises; an
\* exception is logged and the loop over the handlers goes on
handler_done(b, outcome) ==
    /\ brokers[b].pc = "handler"
    /\ LET msg == brokers[b].msg
           h == brokers[b].h
           handler == handlers_for(broadcast_channel[msg].type)[h]
           log == IF outcome = Raises
                  THEN Append(delivery_log, HandlerError(handler, msg))
                  ELSE delivery_log
       IN  InvokeNext(b, outcome, log, msg, h + 1)
    /\ UNCHANGED <<is_running, max_workers, worker_tasks, held, tasks, task_queue,
                   active_tasks, completed_tasks, ai_modules, memory_vault,
                   broadcast_channel, performance_metrics, clock, starts, run_log,
                   first_pop, last_command, event_handlers, consumed, monitors, shutdowns>>

\* `while self.is_running` is false: the broker ends
broker_exit(b) ==
    /\ brokers[b].pc = "idle"
    /\ ~is_running
    /\ brokers' = [brokers EXCEPT ![b] = [pc |-> "done", msg |-> 0, h |-> 0]]
    /\ UNCHANGED <<is_running, max_workers, worker_tasks, held, tasks, task_queue,
                   active_tasks, completed_tasks, ai_modules, memory_vault,
                   broadcast_channel, performance_metrics, clock, starts, run_log,
                   first_pop, last_command, event_handlers, consumed, delivery_log,
                   monitors, shutdowns>>

\* _performance_monitor: it only logs; `while self.is_running` is false: it ends
monitor_exit(m) ==
    /\ monitors[m] = "loop"
    /\ ~is_running
    /\ monitors' = [monitors EXCEPT ![m] = "done"]
    /\ UNCHANGED <<is_running, max_workers, worker_tasks, held, tasks, task_queue,
                   active_tasks, completed_tasks, ai_modules, memory_vault,
                   broadcast_channel, performance_metrics, clock, starts, run_log,
                   first_pop, last_command, bus, shutdowns>>

\* TS: the event types handlers are registered for
Bus(TS) ==
    \/ \E type \in TS, handler \in Handlers : add_event_handler(type, handler)
    \/ \E b \in 1..Len(brokers) : broker_get(b)
    \/ \E b \in 1..Len(brokers), o \in HandlerOutcomes : handler_done(b, o)
    \/ \E b \in 1..Len(brokers) : broker_exit(b)
    \/ \E m \in 1..Len(monitors) : monitor_exit(m)

(***************************************************************************)
(* Next-state relation, over the inputs a caller may choose: priorities    *)
(* PS, module names MS, user ids US, dependency sets of at most K earlier  *)
(* ids, clock advances AS and module outcomes OS.                          *)
(***************************************************************************)
DepSets(K) == {d \in SUBSET TaskIds : Cardinality(d) <= K}

Step(N, PS, MS, US, K, AS, OS) ==
    \/ initialize
    \/ start_monitoring
    \/ \E name \in Registrable : register_ai_module(name)
    \/ \E m \in MS, p \in PS, u \in US, deps \in DepSets(K), a \in AS :
           Len(tasks) < N /\ submit_task(m, p, u, None, deps, a[1], a[2])
    \/ \E t \in active_tasks : cancel_task(t)
    \/ \E w \in Workers : worker_exit(w)
    \/ \E w \in Workers : worker_get(w)
    \/ \E w \in Workers : worker_requeue(w)
    \/ \E w \in Workers : process_task(w)
    \/ \E w \in Workers, o \in OS : module_returns(w, o)
    \/ shutdown /\ UNCHANGED shutdowns

\* the clock between two reads: it has advanced, or it has not (a tie)
Tick == <<0, 1>>
Tie == <<0, 0>>

Next == Step(MaxTasks, {LOW, HIGH}, ModuleNames, {None}, 1, {Tick}, {RetMapping, Raises})

Spec == Init /\ [][Next]_vars

\* two tasks, every module outcome, with and without a user id
NextOutcome == Step(MaxTasksOutcome, {NORMAL}, ModuleNames, {None, "u1"}, 1, {Tick}, Outcomes)

SpecOutcome == Init /\ [][NextOutcome]_vars

\* a pool of one worker, clock ties included
InitOne == InitKernel /\ max_workers = 1

NextOrder == Step(MaxTasks, {LOW, NORMAL, CRITICAL}, {KnownModule}, {None}, 1, {Tie, Tick},
                  {RetMapping})

SpecOrder == InitOne /\ [][NextOrder]_vars

\* the pool with clock ties, every module registered and returning
NextTies == Step(MaxTasks, {LOW, HIGH}, {KnownModule}, {None}, 1, {Tie, Tick}, {RetMapping})

SpecTies == Init /\ [][NextTies]_vars

\* the command interface: cancel_task and get_task_status for every id,
\* one that was never submitted included
CommandIds == 1..(Len(tasks) + 1)

NextCommands ==
    \/ Step(MaxTasksOutcome, {NORMAL}, ModuleNames, {None}, 1, {Tick}, {RetMapping, Raises})
    \/ \E t \in CommandIds : cancel_task(t)
    \/ \E t \in CommandIds : get_task_status(t)

SpecCommands == Init /\ [][NextCommands]_vars

\* tasks that carry a user id, a project id, both or neither
ProjectIds == {"p1"}

NextVault ==
    \/ Step(MaxTasks, {NORMAL}, {KnownModule}, {None, "u1"}, 1, {Tick}, {RetMapping, RetList})
    \/ \E u \in {None, "u1"}, p \in ProjectIds :
           Len(tasks) < MaxTasks /\ submit_task(KnownModule, NORMAL, u, p, {}, 0, 1)

SpecVault == InitOne /\ [][NextVault]_vars

\* start_monitoring called once more than the other specifications allow
NextStart ==
    \/ Step(MaxTasksOutcome, {NORMAL}, {KnownModule}, {None}, 1, {Tick}, {RetMapping, Raises})
    \/ StartMonitoring(MaxStarts + 1)

SpecStart == Init /\ [][NextStart]_vars

\* the event bus with handlers that return or raise, one worker per start
NextEvents ==
    \/ Step(MaxTasksOutcome, {NORMAL}, {KnownModule}, {None}, 1, {Tick}, {RetMapping, Raises})
    \/ StartMonitoring(MaxStarts + 1)
    \/ Bus({"task_completed"})

SpecEvents == InitOne /\ [][NextEvents]_vars

\* shutdown calls counted, up to two
NextShutdown ==
    \/ Step(MaxTasksOutcome, {NORMAL}, {KnownModule}, {None}, 1, {Tick}, {RetMapping, Raises})
    \/ shutdown /\ shutdowns < 2 /\ shutdowns' = shutdowns + 1

SpecShutdown == Init /\ [][NextShutdown]_vars

\* a pool of one worker that is never shut down, with registered modules
\* whose calls return; a worker that can take a step eventually takes one
WorkerStep ==
    \/ \E w \in Workers : worker_exit(w)
    \/ \E w \in Workers : worker_get(w)
    \/ \E w \in Workers : worker_requeue(w)
    \/ \E w \in Workers : process_task(w)
    \/ \E w \in Workers : module_returns(w, RetMapping)

NextLive ==
    \/ initialize
    \/ start_monitoring
    \/ register_ai_module(KnownModule)
    \/ \E p \in {LOW, HIGH}, deps \in DepSets(1) :
           Len(tasks) < MaxTasksOutcome /\ submit_task(KnownModule, p, None, None, deps, Tick[1], Tick[2])
    \/ WorkerStep

SpecLive == InitOne /\ [][NextLive]_vars /\ WF_vars(WorkerStep)

\* the kernel is never shut down; the broker started by start_monitoring
\* takes a step when it can, and an awaited handler returns or raises
BrokerStep ==
    \/ \E b \in 1..Len(brokers) : broker_get(b)
    \/ \E b \in 1..Len(brokers), o \in HandlerOutcomes : handler_done(b, o)
    \/ \E b \in 1..Len(brokers) : broker_exit(b)

NextDeliver ==
    \/ NextLive
    \/ \E handler \in Handlers : add_event_handler("task_completed", handler)
    \/ BrokerStep
    \/ \E m \in 1..Len(monitors) : monitor_exit(m)

SpecDeliver == InitOne /\ [][NextDeliver]_vars /\ WF_vars(WorkerStep) /\ WF_vars(BrokerStep)

\* one worker and enough tasks to overflow the completed set while a
\* dependent task waits, with status queries
NextEvict ==
    \/ Step(MaxTasksEvict, {NORMAL}, {KnownModule}, {None}, 1, {Tick}, {RetMapping})
    \/ \E t \in CommandIds : get_task_status(t)

SpecEvict == InitOne /\ [][NextEvict]_vars

(***************************************************************************)
(* Properties.                                                             *)
(***************************************************************************)
Range(s) == {s[i] : i \in 1..Len(s)}
Pos(s, x) == CHOOSE i \in 1..Len(s) : s[i] = x
Queued == {task_queue[i][3] : i \in 1..Len(task_queue)}
Held == {held[w][3] : w \in {v \in Workers : held[v] # <<>>}}
DepsDone(t) ==
    \A d \in tasks[t].dependencies :
        d \in Range(completed_tasks) /\ tasks[d].status = COMPLETED

\* C1: a task enters RUNNING only in a step before which every one of its
\* dependencies is in completed_tasks with status COMPLETED, and while a
\* task is RUNNING each of its dependencies has status COMPLETED.
DependencyGating ==
    /\ [](\A t \in TaskIds : tasks[t].status = RUNNING =>
              \A d \in tasks[t].dependencies : tasks[d].status = COMPLETED)
    /\ [][\A t \in Range(run_log') \ Range(run_log) : DepsDone(t)]_vars

DependencyGatingWitness ==
    \E t \in TaskIds : tasks[t].dependencies # {} /\ tasks[t].status = RUNNING

\* C2: with one worker and dependency-free tasks that were all queued
\* before the first pop, tasks enter RUNNING in order of decreasing priority.
OneWorker == Len(worker_tasks) = 1
AllQueuedFirst == first_pop = Len(tasks)
NoDependencies == \A t \in TaskIds : tasks[t].dependencies = {}

PriorityOrder ==
    (OneWorker /\ AllQueuedFirst /\ NoDependencies) =>
        \A i, j \in 1..Len(run_log) :
            i < j => tasks[run_log[i]].priority >= tasks[run_log[j]].priority

\* C3: a task whose status is COMPLETED, FAILED or CANCELLED keeps that
\* status in every later step.
TerminalAbsorbing ==
    [][\A t \in TaskIds : tasks[t].status \in Terminal =>
           tasks'[t].status = tasks[t].status]_vars

\* C4: no task is held by two workers, a task held by a worker is not in
\* the queue, and no task is in the queue twice.
SingleExecutor ==
    /\ \A v, w \in Workers :
           (v # w /\ held[v] # <<>> /\ held[w] # <<>>) => held[v][3] # held[w][3]
    /\ Held \cap Queued = {}
    /\ \A i, j \in 1..Len(task_queue) : i # j => task_queue[i][3] # task_queue[j][3]
    /\ \A w \in Workers : worker_tasks[w] \in {"got", "call"} <=> held[w] # <<>>

SingleExecutorWitness ==
    \E v, w \in Workers :
        /\ v # w
        /\ worker_tasks[v] = "call" /\ worker_tasks[w] = "call"
        /\ task_queue # <<>>

\* C5: no task has both result and error set.
OutcomeExclusive ==
    \A t \in TaskIds : ~(tasks[t].result # None /\ tasks[t].error # None)

\* C6: when some task's module call has raised, every other task without
\* dependencies whose own module call returned has status COMPLETED.
FailureIsolation ==
    \A t, u \in TaskIds :
        (/\ t # u
         /\ tasks[t].error = "module error"
         /\ tasks[u].dependencies = {}
         /\ tasks[u].result # None) => tasks[u].status = COMPLETED

\* the step in which a module call raises changes no other task and leaves
\* the worker that ran it at the top of its loop
RaiseTouchesOneTask ==
    [][\A t \in TaskIds :
           (tasks[t].error = None /\ tasks'[t].error = "module error") =>
               /\ \A u \in TaskIds \ {t} : tasks'[u] = tasks[u]
               /\ \A w \in Workers : held[w] # <<>> /\ held[w][3] = t =>
                      worker_tasks'[w] = "loop"]_vars

\* C7: a task dispatched while its module is not registered is FAILED with
\* the unknown-module error in that same step, is neither queued nor held
\* nor active afterwards, the queue is left as it was and the worker is back
\* at the top of its loop; such a task is never in the queue again.
UnknownModuleFails ==
    /\ [][\A t \in Range(run_log') \ Range(run_log) :
              tasks[t].module \notin ai_modules =>
                  /\ tasks'[t].status = FAILED
                  /\ tasks'[t].error = "Unknown AI module"
                  /\ t \notin Queued' \cup Held' \cup active_tasks'
                  /\ task_queue' = task_queue
                  /\ \A w \in Workers : held[w] # <<>> /\ held[w][3] = t =>
                         worker_tasks'[w] = "loop"]_vars
    /\ [](\A t \in TaskIds : tasks[t].error = "Unknown AI module" =>
              tasks[t].status = FAILED /\ t \notin Queued \cup Held \cup active_tasks)

UnknownModuleFailsWitness ==
    \E t \in TaskIds :
        /\ tasks[t].error = "Unknown AI module"
        /\ task_queue # <<>>
        /\ \E w \in Workers : worker_tasks[w] = "loop"

\* C8: with the pool running, once the queue is empty and every worker is
\* back at the top of its loop, every submitted task (all of them without
\* dependencies) has reached COMPLETED or FAILED.
PoolIdle ==
    /\ is_running
    /\ Workers # {}
    /\ \A w \in Workers : worker_tasks[w] = "loop"
    /\ task_queue = <<>>

EventualDispatch ==
    (PoolIdle /\ NoDependencies) =>
        \A t \in TaskIds : tasks[t].status \in {COMPLETED, FAILED}

\* C9: with one worker, of two dependency-free tasks of the same priority
\* the one submitted later never enters RUNNING before the other.
FifoWithinPriority ==
    OneWorker =>
        \A a, b \in TaskIds :
            (/\ a < b
             /\ tasks[a].priority = tasks[b].priority
             /\ tasks[a].dependencies = {} /\ tasks[b].dependencies = {}
             /\ b \in Range(run_log))
                => (a \in Range(run_log) /\ Pos(run_log, a) < Pos(run_log, b))

\* C10: a task one of whose dependencies is FAILED is PENDING, has never
\* entered RUNNING and is in neither the active nor the completed set; a
\* worker that has popped it puts it back in the queue.
HasFailedDependency(b) == \E a \in tasks[b].dependencies : tasks[a].status = FAILED

FailedDependencyBlocks ==
    /\ [](\A b \in TaskIds : HasFailedDependency(b) =>
              /\ tasks[b].status = PENDING
              /\ b \notin Range(run_log)
              /\ b \notin active_tasks
              /\ b \notin Range(completed_tasks))
    /\ [][\A w \in Workers :
              (/\ worker_tasks[w] = "got"
               /\ HasFailedDependency(held[w][3])
               /\ worker_tasks'[w] # "got")
                  => (worker_tasks'[w] = "loop" /\ held[w][3] \in Queued')]_vars

FailedDependencyBlocksWitness ==
    \E w \in Workers : worker_tasks[w] = "got" /\ HasFailedDependency(held[w][3])

\* C11: when the last command was a cancel_task that answered cancelled for
\* task A, no task that lists A as a dependency has entered RUNNING.
CancelAccepted(a) ==
    /\ last_command.type = "cancel_task"
    /\ last_command.answer = Cancelled
    /\ last_command.task_id = a

CancelledDependencyBlocks ==
    \A a, b \in TaskIds :
        (CancelAccepted(a) /\ a \in tasks[b].dependencies) => b \notin Range(run_log)

\* a step that is an execute_command call of the given type for id t
CommandStep(type, t) ==
    /\ last_command' # last_command
    /\ last_command'.type = type
    /\ last_command'.task_id = t

\* C12: a cancel_task for a task that is PENDING in the queue leaves it
\* CANCELLED, and a task cancelled that way never enters RUNNING.
CancelPending ==
    [][\A t \in TaskIds :
           (CommandStep("cancel_task", t) /\ tasks[t].status = PENDING /\ t \in Queued)
               => tasks'[t].status = CANCELLED]_vars

\* everything a command that does nothing must leave alone
Collections ==
    <<tasks, task_queue, active_tasks, completed_tasks, memory_vault,
      performance_metrics, broadcast_channel, worker_tasks, held, is_running>>

Inactive(t) ==
    \/ t \notin TaskIds
    \/ InSeq(t, completed_tasks) /\ tasks[t].status \in Terminal

\* C13: a cancel_task for an id that was never submitted, or whose task is
\* terminal in completed_tasks, answers the not-active error and changes no
\* task and no collection.
CancelInactiveNoop ==
    [][\A t \in CommandIds :
           (CommandStep("cancel_task", t) /\ Inactive(t))
               => /\ last_command'.answer = NotActive
                  /\ UNCHANGED Collections]_vars

CancelInactiveNoopWitness ==
    /\ last_command.type = "cancel_task"
    /\ last_command.answer = NotActive
    /\ last_command.task_id \in TaskIds
    /\ InSeq(last_command.task_id, completed_tasks)
    /\ tasks[last_command.task_id].status \in Terminal
    /\ active_tasks # {}

\* a finished task that is no longer in completed_tasks
Evicted(t) ==
    /\ t \in Range(run_log)
    /\ t \notin active_tasks
    /\ ~InSeq(t, completed_tasks)

\* C14: get_task_status for a task that was submitted and not evicted
\* answers its record, and answers not-found for an id never submitted.
StatusQuery ==
    [][\A t \in CommandIds :
           CommandStep("get_task_status", t) =>
               IF t \in TaskIds /\ ~Evicted(t)
               THEN last_command'.answer = Found /\ last_command'.task = <<tasks[t]>>
               ELSE last_command'.answer = NotFound]_vars

\* the part of the status query that concerns RUNNING and finished tasks
StatusQueryDispatched ==
    [][\A t \in CommandIds :
           CommandStep("get_task_status", t) =>
               IF t \in active_tasks \/ InSeq(t, completed_tasks)
               THEN last_command'.answer = Found /\ last_command'.task = <<tasks[t]>>
               ELSE last_command'.answer = NotFound]_vars

\* C15: no id is both active and completed, an active task is PENDING or
\* RUNNING, a completed task is COMPLETED, FAILED or CANCELLED.
ActiveCompletedPartition ==
    /\ active_tasks \cap Range(completed_tasks) = {}
    /\ \A t \in active_tasks : tasks[t].status \in {PENDING, RUNNING}
    /\ \A t \in Range(completed_tasks) : tasks[t].status \in Terminal

\* the part of the partition that concerns membership alone
ActiveCompletedDisjoint ==
    /\ active_tasks \cap Range(completed_tasks) = {}
    /\ \A i, j \in 1..Len(completed_tasks) :
           i # j => completed_tasks[i] # completed_tasks[j]

\* C16: completed_tasks never holds more than its capacity.
CompletedBound == Len(completed_tasks) <= CompletedCapacity

CompletedBoundWitness ==
    /\ Len(completed_tasks) = CompletedCapacity
    /\ \E t \in TaskIds : Evicted(t)

\* the tasks a step moves out of the active set into completed_tasks
FinishedNow ==
    {t \in Range(run_log') :
        t \notin active_tasks' /\ (t \in active_tasks \/ t \notin Range(run_log))}

\* the position of the event that reported task t finished
EventPos(t) == CHOOSE i \in 1..Len(broadcast_channel) : broadcast_channel[i].task_id = t

ContextKeys(t) == {tasks[t].user_id, tasks[t].project_id} \ {None}
AllKeys == UNION {ContextKeys(t) : t \in TaskIds}
UserKeys == {tasks[t].user_id : t \in TaskIds} \ {None}

IsCompletionFor(e, key) == e.type = "task_completed" /\ key \in ContextKeys(e.task_id)

Completions(key) ==
    LET sel == SelectSeq(broadcast_channel, LAMBDA e : IsCompletionFor(e, key))
    IN  [i \in 1..Len(sel) |-> sel[i].task_id]

VaultHolds(key) ==
    /\ key \in DOMAIN memory_vault => Len(memory_vault[key]) <= VaultCapacity
    /\ Len(Completions(key)) > VaultCapacity =>
           /\ key \in DOMAIN memory_vault
           /\ memory_vault[key] = LastN(Completions(key), VaultCapacity)

\* C18: for every context key the vault's list holds at most VaultCapacity
\* summaries, and after more completions than that for the key it holds
\* the most recent VaultCapacity of them in completion order.
VaultBound == \A key \in AllKeys \cup DOMAIN memory_vault : VaultHolds(key)

\* the same for the keys that are user ids
VaultBoundUser == \A key \in UserKeys \cup DOMAIN memory_vault : VaultHolds(key)

VaultLatest(key) ==
    Completions(key) # <<>> =>
        /\ key \in DOMAIN memory_vault
        /\ memory_vault[key] # <<>>
        /\ memory_vault[key][Len(memory_vault[key])] = Completions(key)[Len(Completions(key))]

\* C19: the task most recently completed for a context key, user id or
\* project id, is the last summary in the vault entry of that key.
VaultPerKey == \A key \in AllKeys : VaultLatest(key)

\* the same for the keys that are user ids
VaultPerUser == \A key \in UserKeys : VaultLatest(key)

\* shutdown() has been called and every worker coroutine has ended
ShutdownReturned ==
    /\ performance_metrics.initialized
    /\ ~is_running
    /\ \A w \in Workers : worker_tasks[w] = "done"

\* C20: once shutdown has returned no task has status RUNNING: a task that
\* was in its module call has its outcome recorded.
GracefulShutdown ==
    ShutdownReturned => \A t \in TaskIds : tasks[t].status # RUNNING

AllWorkersDone == \A w \in Workers : worker_tasks[w] = "done"

\* a step that is a counted shutdown() call
ShutdownStep == shutdowns' # shutdowns

KernelState ==
    <<is_running, max_workers, worker_tasks, held, tasks, task_queue, active_tasks,
      completed_tasks, ai_modules, memory_vault, broadcast_channel, performance_metrics,
      clock, starts, run_log, first_pop, last_command, bus, monitors>>

\* C21: a shutdown() call leaves is_running false and no worker waiting or
\* in a module call; a shutdown() call made after an earlier one, with the
\* pool stopped, changes nothing.
ShutdownIdempotent ==
    /\ [][ShutdownStep =>
              /\ ~is_running'
              /\ \A w \in Workers : worker_tasks'[w] \notin {"loop", "call"}]_vars
    /\ [][(ShutdownStep /\ shutdowns >= 1 /\ ~is_running /\ AllWorkersDone)
              => UNCHANGED KernelState]_vars

ShutdownIdempotentWitness ==
    /\ shutdowns = 2
    /\ Workers # {}
    /\ AllWorkersDone
    /\ ~is_running
    /\ run_log # <<>>

\* shutdown() has been called and has returned: no worker holds an item or
\* is inside a module call
Stopped ==
    /\ performance_metrics.initialized
    /\ ~is_running
    /\ \A w \in Workers : worker_tasks[w] \in {"loop", "done"}

\* C22: once shutdown has returned the kernel stays stopped and no task
\* enters RUNNING, whether queued before or submitted afterwards.
NoDispatchAfterShutdown ==
    [][Stopped =>
           /\ Stopped'
           /\ run_log' = run_log
           /\ \A t \in TaskIds : tasks[t].status # RUNNING => tasks'[t].status # RUNNING]_vars

NoDispatchAfterShutdownWitness ==
    /\ Stopped
    /\ ShutdownReturned
    /\ task_queue # <<>>
    /\ run_log # <<>>

\* the coroutines start_monitoring created that have not ended
LiveWorkers == {w \in Workers : worker_tasks[w] # "done"}
LiveBrokers == {b \in 1..Len(brokers) : brokers[b].pc # "done"}
LiveMonitors == {m \in 1..Len(monitors) : monitors[m] # "done"}

\* C23: however often start_monitoring is called, at most max_workers worker
\* loops, one distribution loop and one monitor ticker are alive.
StartIdempotent ==
    /\ Cardinality(LiveWorkers) <= max_workers
    /\ Cardinality(LiveBrokers) <= 1
    /\ Cardinality(LiveMonitors) <= 1

\* one call of start_monitoring creates exactly max_workers workers, one
\* broker and one monitor
StartCreatesPool ==
    [][starts' # starts =>
           /\ Len(worker_tasks') = Len(worker_tasks) + max_workers
           /\ Len(brokers') = Len(brokers) + 1
           /\ Len(monitors') = Len(monitors) + 1]_vars

\* shutdown() has been called
ShutdownCalled == performance_metrics.initialized /\ ~is_running

\* C28: from start_monitoring until shutdown exactly max_workers worker
\* loops are alive.
WorkerCapacity ==
    (starts >= 1 /\ ~ShutdownCalled) => Cardinality(LiveWorkers) = max_workers

\* no worker loop ends while is_running holds: a failed task or an exception
\* in the loop body never makes a worker exit
WorkersSurviveFailures ==
    [][\A w \in Workers :
           (is_running /\ is_running' /\ worker_tasks[w] # "done")
               => worker_tasks'[w] # "done"]_vars

\* the invocations recorded in delivery_log, by position
Calls == {i \in 1..Len(delivery_log) : delivery_log[i].kind = "call"}

\* the place of a handler in the list registered for the type of message msg
RegistrationIndex(handler, msg) ==
    LET list == handlers_for(broadcast_channel[msg].type)
    IN  CHOOSE k \in 1..Len(list) : list[k] = handler

EventOrderPerHandler ==
    \A i, j \in Calls :
        (/\ delivery_log[i].handler = delivery_log[j].handler
         /\ delivery_log[i].msg < delivery_log[j].msg) => i < j

RegistrationOrderPerEvent ==
    \A i, j \in Calls :
        (/\ delivery_log[i].msg = delivery_log[j].msg
         /\ i < j)
            => RegistrationIndex(delivery_log[i].handler, delivery_log[i].msg)
                   < RegistrationIndex(delivery_log[j].handler, delivery_log[j].msg)

\* C24: a handler receives the events of its type in the order they were
\* published, and the handlers of one event are invoked in registration order.
DeliveryOrder == EventOrderPerHandler /\ RegistrationOrderPerEvent

\* with a single broker the order is kept
DeliveryOrderOneBroker == Len(brokers) <= 1 => DeliveryOrder

\* the worker pool's part of the state
PublisherState == <<worker_tasks, held, tasks, task_queue, active_tasks, completed_tasks,
                    memory_vault, broadcast_channel, performance_metrics, run_log>>

\* C25: when a handler returns or raises, the broker goes on to the next
\* handler registered for the event, or back to its loop after the last one;
\* a broker ends only when is_running is false; the workers are untouched.
SubscriberIsolation ==
    [][\A b \in 1..Len(brokers) :
           /\ (brokers[b].pc = "handler" /\ brokers'[b] # brokers[b]) =>
                  LET msg == brokers[b].msg
                      h == brokers[b].h
                      list == handlers_for(broadcast_channel[msg].type)
                  IN  /\ \E o \in HandlerOutcomes :
                             LET log == IF o = Raises
                                        THEN Append(delivery_log, HandlerError(list[h], msg))
                                        ELSE delivery_log
                             IN  IF h + 1 <= Len(list)
                                 THEN /\ delivery_log' = Append(log, Invocation(list[h + 1], msg))
                                      /\ brokers'[b] = [pc |-> "handler", msg |-> msg, h |-> h + 1]
                                 ELSE /\ delivery_log' = log
                                      /\ brokers'[b] = Idle
                      /\ UNCHANGED PublisherState
           /\ (brokers[b].pc # "done" /\ brokers'[b].pc = "done") => ~is_running]_vars

\* a handler raised on an event, the next handler of that event was invoked
\* right after, and a later event was delivered as well
SubscriberIsolationWitness ==
    \E i \in 1..Len(delivery_log) :
        /\ delivery_log[i].kind = "error"
        /\ i + 1 \in Calls
        /\ delivery_log[i + 1].msg = delivery_log[i].msg
        /\ delivery_log[i + 1].handler # delivery_log[i].handler
        /\ \E j \in Calls : j > i /\ delivery_log[j].msg > delivery_log[i].msg

\* the tasks of a module that ended with the given status
Ended(module, status) ==
    {t \in TaskIds : tasks[t].module = module /\ tasks[t].status = status}

RECURSIVE SumTotalTasks(_, _)
SumTotalTasks(mp, S) ==
    IF S = {} THEN 0
    ELSE LET m == CHOOSE x \in S : TRUE
         IN  mp[m].total_tasks + SumTotalTasks(mp, S \ {m})

\* C26: per module total_tasks = success_count + error_count, success_count
\* is the number of its COMPLETED tasks, error_count the number of its FAILED
\* tasks, a module without an entry has neither, and tasks_processed is the
\* sum of total_tasks over the modules.
ExactStatistics ==
    LET mp == performance_metrics.module_performance
    IN  /\ \A m \in DOMAIN mp :
               /\ mp[m].total_tasks = mp[m].success_count + mp[m].error_count
               /\ mp[m].success_count = Cardinality(Ended(m, COMPLETED))
               /\ mp[m].error_count = Cardinality(Ended(m, FAILED))
        /\ \A t \in TaskIds :
               tasks[t].status \in {COMPLETED, FAILED} => tasks[t].module \in DOMAIN mp
        /\ performance_metrics.tasks_processed = SumTotalTasks(mp, DOMAIN mp)

\* two modules have entries, one with a success and a failure
ExactStatisticsWitness ==
    LET mp == performance_metrics.module_performance
    IN  /\ Cardinality(DOMAIN mp) = 2
        /\ \E m \in DOMAIN mp : mp[m].error_count >= 1
        /\ \E m \in DOMAIN mp : mp[m].success_count >= 1
        /\ performance_metrics.tasks_processed = 2

\* submit_task has run: the list of tasks has one more entry
SubmitStep == (Len(tasks) + 1) \in DOMAIN tasks'

\* C27: every submit_task returns normally: the put of the new item raises
\* nothing, the new task is PENDING under a fresh id, the queue holds exactly
\* one more item and nothing else changes.
SubmitSucceeds ==
    [][SubmitStep =>
           LET task_id == Len(tasks) + 1
               item == <<tasks'[task_id].priority, clock', task_id>>
               put == HeapPush(task_queue, item)
           IN  /\ ~put.err
               /\ tasks'[task_id].status = PENDING
               /\ \A t \in TaskIds : tasks'[t] = tasks[t]
               /\ task_queue' = put.heap
               /\ \A i \in 1..Len(task_queue) : task_queue[i][3] # task_id
               /\ UNCHANGED <<is_running, worker_tasks, held, active_tasks, completed_tasks,
                              ai_modules, memory_vault, broadcast_channel,
                              performance_metrics, run_log>>]_vars

\* the pool is running: is_running holds and a worker loop is alive
PoolRunning == is_running /\ LiveWorkers # {}

\* the tasks whose item is in the queue and whose dependencies are met
ReadyQueued ==
    {t \in TaskIds : /\ \E i \in 1..Len(task_queue) : task_queue[i][3] = t
                     /\ check_dependencies(t)}

\* C29: whenever the pool is running and the queue holds a ready task,
\* one more task is eventually dispatched.
ReadyEventuallyDispatched ==
    \A n \in 0..MaxTasksOutcome :
        (PoolRunning /\ ReadyQueued # {} /\ Len(run_log) = n) ~> (Len(run_log) > n)

\* C30: when task a has no dependencies and its module is registered before
\* it is dispatched (so that its call succeeds), task b depends on a alone
\* and the pool is running, b is eventually dispatched.
DependentEventuallyRuns ==
    \A a, b \in 1..MaxTasksOutcome :
        (/\ PoolRunning
         /\ a \in TaskIds /\ b \in TaskIds
         /\ tasks[a].dependencies = {}
         /\ tasks[a].module \in ai_modules
         /\ tasks[a].status # FAILED
         /\ tasks[b].dependencies = {a}) ~> InSeq(b, run_log)

\* the number of places that hold task t: items of the queue, workers
\* holding its item, the completed set
QueueCount(t) == Cardinality({i \in 1..Len(task_queue) : task_queue[i][3] = t})
HeldCount(t) == Cardinality({w \in Workers : held[w] # <<>> /\ held[w][3] = t})
Places(t) == QueueCount(t) + HeldCount(t) + (IF InSeq(t, completed_tasks) THEN 1 ELSE 0)

\* C31: every submitted task is in exactly one place: in the queue, held by
\* one worker, in the completed set, or (after it was dispatched) evicted.
TaskConservation ==
    \A t \in TaskIds :
        \/ Places(t) = 1
        \/ Places(t) = 0 /\ t \in Range(run_log)

\* C32: no task is dispatched twice, and a task that has been dispatched
\* has no item in the queue, whatever its outcome.
AtMostOnce ==
    /\ \A i, j \in 1..Len(run_log) : run_log[i] = run_log[j] => i = j
    /\ \A t \in Range(run_log) : QueueCount(t) = 0

\* a task has failed, and the pool has dispatched another task after it
AtMostOnceWitness ==
    /\ Len(run_log) >= 2
    /\ tasks[run_log[1]].status = FAILED
    /\ tasks[run_log[1]].error = "module error"
    /\ \A w \in Workers : worker_tasks[w] = "loop"

\* the events published for task t, by position in the channel
EventsOf(t) == {i \in 1..Len(broadcast_channel) : broadcast_channel[i].task_id = t}

Published(t, type) == \E i \in EventsOf(t) : broadcast_channel[i].type = type

\* a worker has dispatched t and is through with it
Processed(t) == t \in Range(run_log) /\ HeldCount(t) = 0

\* at most one event per task, and its type tells the status of the task
EventMatchesStatus ==
    \A t \in TaskIds :
        /\ Cardinality(EventsOf(t)) <= 1
        /\ Published(t, "task_completed") <=> tasks[t].status = COMPLETED
        /\ Published(t, "task_failed") <=> tasks[t].status = FAILED

\* C33: every task a worker has processed has published exactly one event,
\* task_completed iff it is COMPLETED and task_failed iff it is FAILED.
OneEventPerTask ==
    /\ EventMatchesStatus
    /\ \A t \in TaskIds : Processed(t) => Cardinality(EventsOf(t)) = 1

\* task t gets its final status FAILED in this step
Fails(t) == tasks[t].status # FAILED /\ tasks'[t].status = FAILED

\* C34: a step in which a task ends FAILED leaves the memory vault as it
\* was, and a step that changes the vault is one in which a task ends
\* COMPLETED.
VaultUntouchedOnFailure ==
    [][/\ \A t \in TaskIds : Fails(t) => memory_vault' = memory_vault
       /\ memory_vault' # memory_vault =>
              \E t \in TaskIds : tasks[t].status # COMPLETED /\ tasks'[t].status = COMPLETED]_vars

\* a task that fails because its module raised or is unknown leaves the
\* vault as it was
VaultUntouchedOnRaise ==
    [][\A t \in TaskIds :
           (Fails(t) /\ tasks'[t].error \in {"module error", "Unknown AI module"})
               => memory_vault' = memory_vault]_vars

\* C35: an evicted task stays evicted, get_task_status for it answers
\* not-found, and no task that depends on it and has not been dispatched is
\* dispatched.
EvictedDependency ==
    [][\A t \in TaskIds :
           Evicted(t) =>
               /\ Evicted(t)'
               /\ CommandStep("get_task_status", t) => last_command'.answer = NotFound
               /\ \A d \in TaskIds :
                      (t \in tasks[d].dependencies /\ d \notin Range(run_log))
                          => d \notin Range(run_log')]_vars

\* a task is evicted, a status query for it was answered not-found, and the
\* worker has popped a task that depends on it
EvictedDependencyWitness ==
    \E t, d \in TaskIds :
        /\ Evicted(t)
        /\ t \in tasks[d].dependencies
        /\ HeldCount(d) = 1
        /\ last_command = Answer("get_task_status", t, NotFound, <<>>)

\* the tasks dispatched in this step
DispatchedNow == Range(run_log') \ Range(run_log)

\* C36: the module of a task is looked up when the task is dispatched: if
\* it is registered by then the call is invoked (the task is RUNNING and
\* active), whenever the task was submitted; the unknown-module error is
\* given only in a dispatch that finds the module unregistered; registering
\* a module changes no task and no collection.
ResolutionAtDispatch ==
    [][/\ \A t \in DispatchedNow :
              tasks[t].module \in ai_modules =>
                  /\ tasks'[t].status = RUNNING
                  /\ tasks'[t].error = None
                  /\ t \in active_tasks'
                  /\ \E w \in Workers : worker_tasks'[w] = "call" /\ held'[w][3] = t
       /\ \A t \in TaskIds :
              (tasks[t].error # "Unknown AI module" /\ tasks'[t].error = "Unknown AI module")
                  => t \in DispatchedNow /\ tasks[t].module \notin ai_modules
       /\ ai_modules' # ai_modules =>
              UNCHANGED <<tasks, task_queue, active_tasks, completed_tasks, held,
                          worker_tasks, broadcast_channel, performance_metrics>>]_vars

\* two tasks for one module, the second submitted first: one was dispatched
\* before the module was registered and failed, the other, submitted before
\* the registration as well, was dispatched after it and completed
ResolutionAtDispatchWitness ==
    \E t1, t2 \in TaskIds :
        /\ t2 < t1
        /\ tasks[t1].module = tasks[t2].module
        /\ tasks[t1].error = "Unknown AI module"
        /\ tasks[t2].status = COMPLETED

\* message number m is still on the channel and handler h is registered
\* for its type, with the kernel running and a broker alive
AwaitsDelivery(m, h) ==
    /\ is_running
    /\ LiveBrokers # {}
    /\ m <= Len(broadcast_channel)
    /\ consumed < m
    /\ InSeq(h, handlers_for(broadcast_channel[m].type))

Delivered(m, h) == \E i \in Calls : delivery_log[i] = Invocation(h, m)

QueueItems == {task_queue[i] : i \in 1..Len(task_queue)}

\* worker w puts back the item it holds: it leaves "got" and nothing is
\* dispatched
RequeueStep(w) ==
    /\ worker_tasks[w] = "got"
    /\ worker_tasks'[w] = "loop"
    /\ run_log' = run_log

\* worker w pops an item
GetStep(w) == worker_tasks[w] = "loop" /\ worker_tasks'[w] = "got"

\* C38: a pop hands the worker an item of the queue as it is, and a
\* re-queue puts the held item back with the priority and the timestamp it
\* was popped with; neither step changes a task or the active and completed
\* sets.
RequeueKeepsKey ==
    [][\A w \in Workers :
           /\ GetStep(w) =>
                  /\ held'[w] \in QueueItems
                  /\ QueueItems' = QueueItems \ {held'[w]}
                  /\ UNCHANGED <<tasks, active_tasks, completed_tasks>>
           /\ RequeueStep(w) =>
                  /\ QueueItems' = QueueItems \cup {held[w]}
                  /\ Len(task_queue') = Len(task_queue) + 1
                  /\ held[w] \notin QueueItems
                  /\ UNCHANGED <<tasks, active_tasks, completed_tasks>>]_vars

\* every pop so far has been followed by a re-queue: a worker has popped,
\* nothing was dispatched, no worker holds an item, every task is queued
RequeueKeepsKeyWitness ==
    /\ first_pop # -1
    /\ run_log = <<>>
    /\ Workers # {}
    /\ \A w \in Workers : worker_tasks[w] = "loop" /\ held[w] = <<>>
    /\ \A t \in TaskIds : QueueCount(t) = 1

====
